---- MODULE Spec2Model ----
(***************************************************************************)
(* Model of KL::Logger (include/KL/Logger.h): an asynchronous logger with  *)
(* producers calling init()/log(), one worker thread running               *)
(* process_queue(), a rotating file sink and a console sink, and the       *)
(* destructor running shut_down().                                         *)
(***************************************************************************)
EXTENDS Integers, Sequences, FiniteSets, TLC

(* ------------------------------ bounds --------------------------------- *)
MaxEntries == 2
MaxInits == 1
SinkEntries == 3
MaxClock == 1
ConsoleEntries == 3
WakeEntries == 2

(* --------------------------- program constants ------------------------- *)
DefaultMaxLines == 100000

Threads == {"p1", "p2"}
NoThread == "none"
Worker == "worker"

Levels == {"INFO", "WARNING", "ERROR"}

\* init() arguments used by callers: "" is the default folderPath; "logs" is
\* a directory that can be created; "bad" is one that cannot.
DefaultDir == ""
Cwd == "cwd"

\* the (folderPath, maxLinesPerFile) pairs callers pass to init()
InitInputs == {<<"logs", 1>>, <<"bad", 2>>}
SinkInitInputs == {<<DefaultDir, 2>>, <<"logs", 1>>, <<"bad", 2>>}

\* the (writeToFile, level) pairs callers pass to log(): the LOG_ macros pass
\* false, the FLOG_ macros true
LogInputs == {<<FALSE, "INFO">>, <<TRUE, "ERROR">>}
\* ... of which, in the runs with two callers, the first caller logs to the
\* console only and the second one to the file as well
LogInputsOf(t) == {a \in LogInputs : a[1] <=> (t = "p2")}
SinkLogInputs == {<<TRUE, "WARNING">>, <<FALSE, "ERROR">>}
WakeLogInputs == {<<FALSE, "INFO">>}
ConsoleLogInputs == {<<FALSE, "INFO">>, <<TRUE, "WARNING">>, <<FALSE, "ERROR">>}

Creatable(dir) == dir # "bad"

VARIABLES
    mLogEntryQueue,     \* std::queue<LogEntry>, guarded by mMutex
    mMutex,             \* owner of the mutex, or NoThread
    mWorkerThread,      \* "none" | "joinable" | "joined"
    mIsRunning,         \* std::atomic<bool>
    mIsInitialized,     \* std::atomic<bool>
    mFileStream,        \* [is_open, bad, path]
    mLogDirectory,
    mMaxLines,
    mCurrentLineCount,
    localQueue,         \* process_queue()'s local buffer
    workerPc,           \* position of the worker thread
    pc,                 \* position of each caller thread
    call,               \* the call each caller thread is in (arguments, result)
    sdPc,               \* position of the thread running ~Logger / shut_down
    terminated,         \* std::terminate was called
    clock,              \* wall clock, in milliseconds
    disk,               \* file name -> lines appended to it
    console,            \* lines written to std::cout / std::cerr, in order
    hist                \* observation of the run (history only)

vars == <<mLogEntryQueue, mMutex, mWorkerThread, mIsRunning, mIsInitialized,
          mFileStream, mLogDirectory, mMaxLines, mCurrentLineCount,
          localQueue, workerPc, pc, call, sdPc, terminated, clock, disk,
          console, hist>>

(* ------------------------------ helpers -------------------------------- *)
NoPath == <<>>

\* create_new_file(): "klog_" + time stamp (':' and ' ' replaced) + ".txt";
\* the stamp has millisecond resolution, so the name is a function of the
\* millisecond the clock shows.
FileName(ms) == <<"klog_", ms, ".txt">>

FileNames == {FileName(ms) : ms \in 0..MaxClock}

LogEntry(id, t, writeToFile, level) ==
    [id |-> id, producer |-> t, writeToFile |-> writeToFile, level |-> level]

Range(s) == {s[i] : i \in 1..Len(s)}

IdSeq(s) == [i \in 1..Len(s) |-> s[i].id]

NoCall == [op |-> "none", dir |-> DefaultDir, max |-> DefaultMaxLines,
           writeToFile |-> FALSE, level |-> "INFO", sawInit |-> FALSE,
           io |-> {}, ret |-> "idle"]

\* what the most recent dispatch did to the file sink
NoDispatch == [id |-> 0, persist |-> FALSE, wasOpen |-> FALSE,
               created |-> FALSE, opened |-> FALSE, wrote |-> FALSE,
               line |-> FALSE, diag |-> FALSE]

(* ------------------------------ Init ----------------------------------- *)
\* Logger(): mCurrentLineCount(0), mMaxLines(100000), mIsInitialized(false),
\* mIsRunning(false); everything else default-constructed.
Init ==
    /\ mLogEntryQueue = <<>>
    /\ mMutex = NoThread
    /\ mWorkerThread = "none"
    /\ mIsRunning = FALSE
    /\ mIsInitialized = FALSE
    /\ mFileStream = [is_open |-> FALSE, bad |-> FALSE, path |-> NoPath]
    /\ mLogDirectory = "unset"
    /\ mMaxLines = DefaultMaxLines
    /\ mCurrentLineCount = 0
    /\ localQueue = <<>>
    /\ workerPc = "none"
    /\ pc = [t \in Threads |-> "idle"]
    /\ call = [t \in Threads |-> NoCall]
    /\ sdPc = "idle"
    /\ terminated = FALSE
    /\ clock = 0
    /\ disk = [n \in FileNames |-> <<>>]
    /\ console = <<>>
    /\ hist = [pushOrder |-> <<>>, dispatched |-> <<>>, fileCalls |-> <<>>,
               opened |-> <<>>, last |-> NoDispatch,
               fault |-> FALSE, inits |-> 0, logCalls |-> 0,
               threadsCreated |-> 0, noopInits |-> 0, swaps |-> 0,
               emptyBatches |-> 0,
               sdMark |-> 0]

(* ------------------------- condition variable -------------------------- *)
\* a notification that is never delivered
NotificationLost(wpc) == wpc

\* mCV.notify_one() / notify_all(): the worker is the only waiter; a
\* notification that finds nobody blocked in wait() is lost.
Notified(wpc) == IF wpc = "waiting" THEN "woken" ELSE wpc

(* ------------------------------ init() --------------------------------- *)
\* init() without its early return
InitNeverReturnsEarly(initialized) == FALSE

\* if (true == mIsInitialized) return;
InitReturnsEarly(initialized) == initialized

\* init() from the lock_guard to "mIsRunning = true", for the call c of
\* thread t: one step, since every write before the thread is created is made
\* under the mutex or to a flag whose readers cannot tell the writes apart.
\* create_directories throws std::filesystem::filesystem_error when the
\* directory cannot be created: the exception leaves init() and releases the
\* lock_guard, after mMaxLines and mLogDirectory have been assigned.
InitBody(t, c) ==
    /\ mMutex = NoThread
    /\ IF InitReturnsEarly(mIsInitialized)
       THEN /\ pc' = [pc EXCEPT ![t] = c.ret]
            /\ call' = [call EXCEPT ![t] = IF c.op = "init" THEN NoCall ELSE c]
            /\ UNCHANGED <<mMutex, mMaxLines, mLogDirectory, mIsInitialized,
                           mIsRunning>>
       ELSE /\ mMaxLines' = c.max
            /\ mLogDirectory' = IF c.dir = DefaultDir THEN Cwd ELSE c.dir
            /\ call' = [call EXCEPT ![t] =
                          [c EXCEPT !.io = @ \cup
                              (IF c.dir = DefaultDir THEN {"current_path"}
                               ELSE {"exists", "create_directories"})]]
            /\ IF c.dir = DefaultDir \/ Creatable(c.dir)
               THEN /\ mIsInitialized' = TRUE
                    /\ mIsRunning' = TRUE
                    /\ mMutex' = t
                    /\ pc' = [pc EXCEPT ![t] = "init_spawn"]
               ELSE /\ pc' = [pc EXCEPT ![t] = "init_throw"]
                    /\ UNCHANGED <<mMutex, mIsInitialized, mIsRunning>>
    /\ UNCHANGED <<mLogEntryQueue, mWorkerThread, mFileStream,
                   mCurrentLineCount, localQueue, workerPc, sdPc, terminated,
                   clock, disk, console>>

\* a caller calls init(folderPath, maxLinesPerFile)
InitCall(t, dir, max) ==
    /\ ~terminated
    /\ pc[t] = "idle"
    /\ hist.inits < MaxInits
    /\ hist' = [hist EXCEPT !.inits = @ + 1,
                            !.noopInits = IF InitReturnsEarly(mIsInitialized)
                                          THEN @ + 1 ELSE @]
    /\ InitBody(t, [NoCall EXCEPT !.op = "init", !.dir = dir, !.max = max,
                                  !.sawInit = mIsInitialized])

\* the filesystem_error leaves init() and reaches the caller, which handles it
InitThrow(t) ==
    /\ ~terminated
    /\ pc[t] = "init_throw"
    /\ pc' = [pc EXCEPT ![t] = "idle"]
    /\ call' = [call EXCEPT ![t] = NoCall]
    /\ UNCHANGED <<mLogEntryQueue, mMutex, mWorkerThread, mIsRunning,
                   mIsInitialized, mFileStream, mLogDirectory, mMaxLines,
                   mCurrentLineCount, localQueue, workerPc, sdPc, terminated,
                   clock, disk, console, hist>>

\* mWorkerThread = std::thread(&Logger::process_queue, this); then the
\* lock_guard is released.  Assigning to a joinable std::thread calls
\* std::terminate.
InitSpawn(t) ==
    /\ ~terminated
    /\ pc[t] = "init_spawn"
    /\ terminated' = (mWorkerThread = "joinable")
    /\ mWorkerThread' = "joinable"
    /\ workerPc' = "lock"
    /\ localQueue' = <<>>
    /\ mMutex' = NoThread
    /\ pc' = [pc EXCEPT ![t] = call[t].ret]
    /\ call' = [call EXCEPT ![t] = IF call[t].op = "init" THEN NoCall ELSE @]
    /\ hist' = [hist EXCEPT !.threadsCreated = @ + 1]
    /\ UNCHANGED <<mLogEntryQueue, mIsRunning, mIsInitialized, mFileStream,
                   mLogDirectory, mMaxLines, mCurrentLineCount, sdPc, clock,
                   disk, console>>

(* ------------------------------- log() --------------------------------- *)
\* log() announcing and running init() on every call
AlwaysImplicitInit(initialized) == TRUE

\* log() without the implicit initialization
NeverImplicitInit(initialized) == FALSE

\* if (false == mIsInitialized) { std::cout << ...; init(); }
NeedsImplicitInit(initialized) == ~initialized

\* an insertion that leaves two copies of the entry in the queue
PushTwice(q, e) == Append(Append(q, e), e)

\* an insertion at the front of the queue
PushFront(q, e) == <<e>> \o q

\* mLogEntryQueue.push(entry)
Push(q, e) == Append(q, e)

\* a caller calls log(level, msg, writeToFile): the read of mIsInitialized
\* and, when it reads false,
\* std::cout << "Logger initializing with default values. " << "\n";
LogCall(t, writeToFile, level, maxCalls) ==
    /\ ~terminated
    /\ pc[t] = "idle"
    /\ hist.logCalls < maxCalls
    /\ LET implicit == NeedsImplicitInit(mIsInitialized)
       IN /\ call' = [call EXCEPT ![t] =
                        [NoCall EXCEPT !.op = "log",
                                       !.writeToFile = writeToFile,
                                       !.level = level,
                                       !.sawInit = mIsInitialized,
                                       !.io = IF implicit THEN {"cout"} ELSE {},
                                       !.ret = "log_push"]]
          /\ pc' = [pc EXCEPT ![t] = IF implicit THEN "init_lock" ELSE "log_push"]
          /\ console' = IF implicit
                        THEN Append(console, [kind |-> "diag", id |-> 0,
                                              color |-> "", stream |-> "cout"])
                        ELSE console
    /\ hist' = [hist EXCEPT !.logCalls = @ + 1]
    /\ UNCHANGED <<mLogEntryQueue, mMutex, mWorkerThread, mIsRunning,
                   mIsInitialized, mFileStream, mLogDirectory, mMaxLines,
                   mCurrentLineCount, localQueue, workerPc, sdPc, terminated,
                   clock, disk>>

\* init(); called by log() with the default arguments
LogInit(t) ==
    /\ ~terminated
    /\ pc[t] = "init_lock"
    /\ InitBody(t, call[t])
    /\ UNCHANGED hist

\* { std::lock_guard lock(mMutex); mLogEntryQueue.push(LogEntry{...}); }
LogPush(t) ==
    /\ ~terminated
    /\ pc[t] = "log_push"
    /\ mMutex = NoThread
    /\ LET e == LogEntry(Len(hist.pushOrder) + 1, t, call[t].writeToFile,
                         call[t].level)
       IN /\ mLogEntryQueue' = Push(mLogEntryQueue, e)
          /\ hist' = [hist EXCEPT !.pushOrder = Append(@, e)]
    /\ pc' = [pc EXCEPT ![t] = "log_notify"]
    /\ UNCHANGED <<mMutex, mWorkerThread, mIsRunning, mIsInitialized,
                   mFileStream, mLogDirectory, mMaxLines, mCurrentLineCount,
                   localQueue, workerPc, call, sdPc, terminated, clock, disk,
                   console>>

\* mCV.notify_one();
LogNotify(t) ==
    /\ ~terminated
    /\ pc[t] = "log_notify"
    /\ workerPc' = Notified(workerPc)
    /\ pc' = [pc EXCEPT ![t] = "idle"]
    /\ call' = [call EXCEPT ![t] = NoCall]
    /\ UNCHANGED <<mLogEntryQueue, mMutex, mWorkerThread, mIsRunning,
                   mIsInitialized, mFileStream, mLogDirectory, mMaxLines,
                   mCurrentLineCount, localQueue, sdPc, terminated, clock,
                   disk, console, hist>>

(* ----------------------------- file sink ------------------------------- *)
\* create_new_file(): close the stream if open; build the name from
\* get_time_stamp_for_now() (which throws when localtime fails; the catch
\* prints e.what() to std::cerr and leaves the counter alone); open the
\* file in append mode (a failed open sets failbit, a successful one clears
\* the stream state); mCurrentLineCount = 0.
create_new_file(fs, count, now, stampOk, openOk) ==
    IF ~stampOk
    THEN [fs |-> [fs EXCEPT !.is_open = FALSE, !.path = NoPath],
          count |-> count, opened |-> FALSE, diag |-> TRUE]
    ELSE IF openOk
    THEN [fs |-> [is_open |-> TRUE, bad |-> FALSE, path |-> FileName(now)],
          count |-> 0, opened |-> TRUE, diag |-> FALSE]
    ELSE [fs |-> [is_open |-> FALSE, bad |-> TRUE, path |-> NoPath],
          count |-> 0, opened |-> FALSE, diag |-> FALSE]

\* a rotation test that lets one line too many into the file
needNewFileOffByOne(fs, count, maxLines) == (~fs.is_open) \/ count > maxLines

\* a rotation test that forgets the closed stream
needNewFileAtCapOnly(fs, count, maxLines) == count >= maxLines

\* bool needNewFile = ((false == mFileStream.is_open()) || mCurrentLineCount >= mMaxLines);
needNewFile(fs, count, maxLines) == (~fs.is_open) \/ count >= maxLines

\* write_to_file(msg): rotate if needed; if the stream is open, insert the
\* line (the insertion does nothing on a stream whose state is not good, and
\* a failed insertion sets badbit) and increment the counter.
write_to_file(fs, count, maxLines, now, stampOk, openOk, writeOk) ==
    LET need == needNewFile(fs, count, maxLines)
        c == IF need THEN create_new_file(fs, count, now, stampOk, openOk)
             ELSE [fs |-> fs, count |-> count, opened |-> FALSE, diag |-> FALSE]
        landed == c.fs.is_open /\ ~c.fs.bad /\ writeOk
    IN IF c.fs.is_open
       THEN [fs |-> [c.fs EXCEPT !.bad = ~landed], count |-> c.count + 1,
             created |-> need, opened |-> c.opened, diag |-> c.diag,
             line |-> landed, wrote |-> TRUE]
       ELSE [fs |-> c.fs, count |-> c.count, created |-> need,
             opened |-> c.opened, diag |-> c.diag, line |-> FALSE,
             wrote |-> FALSE]

(* ---------------------------- console sink ----------------------------- *)
\* get_color_code(level)
get_color_code(level) ==
    CASE level = "INFO" -> "GREEN"
      [] level = "WARNING" -> "YELLOW"
      [] level = "ERROR" -> "RED"
      [] OTHER -> ""

\* a console sink that writes every level to std::cout
write_to_terminal_cout(e) ==
    [kind |-> "entry", id |-> e.id, color |-> get_color_code(e.level),
     stream |-> "cout"]

\* write_to_terminal(level, msg): std::cerr for ERROR, std::cout otherwise.
write_to_terminal(e) ==
    [kind |-> "entry", id |-> e.id, color |-> get_color_code(e.level),
     stream |-> IF e.level = "ERROR" THEN "cerr" ELSE "cout"]

(* --------------------------- process_queue() --------------------------- *)
\* a wait() without a predicate: every return of wait() is taken as work
WaitWithoutPredicate(q, running) == TRUE

\* the predicate of mCV.wait(lock, ...)
WaitPredicate(q, running) == q # <<>> \/ ~running

\* a worker that stops as soon as the flag is cleared
stopWithoutDrain(q, running) == ~running

\* bool shouldWorkerThreadWork = (!mIsRunning && mLogEntryQueue.empty());
shouldWorkerThreadWork(q, running) == ~running /\ q = <<>>

\* if (log.writeToFile) write_to_file(...); else write_to_terminal(...);
SinksEitherOr(e) == [file |-> e.writeToFile, terminal |-> ~e.writeToFile]

\* write_to_file(...) called for every entry, whatever its flag
SinksAlwaysFile(e) == [file |-> TRUE, terminal |-> TRUE]

\* if (log.writeToFile) write_to_file(...); write_to_terminal(...);
SinksFor(e) == [file |-> e.writeToFile, terminal |-> TRUE]

\* std::unique_lock lock(mMutex) (or the re-acquisition when wait() returns)
\* and the predicate of mCV.wait(lock, pred): while (!pred()) wait(lock);
WorkerPred ==
    /\ ~terminated
    /\ workerPc \in {"lock", "woken"}
    /\ mMutex = NoThread
    /\ mMutex' = Worker
    /\ workerPc' = IF WaitPredicate(mLogEntryQueue, mIsRunning)
                   THEN "decide" ELSE "enter_wait"
    /\ UNCHANGED <<mLogEntryQueue, mWorkerThread, mIsRunning, mIsInitialized,
                   mFileStream, mLogDirectory, mMaxLines, mCurrentLineCount,
                   localQueue, pc, call, sdPc, terminated, clock, disk,
                   console, hist>>

\* ... wait(lock): release the mutex and block, atomically
WorkerWait ==
    /\ ~terminated
    /\ workerPc = "enter_wait"
    /\ mMutex' = NoThread
    /\ workerPc' = "waiting"
    /\ UNCHANGED <<mLogEntryQueue, mWorkerThread, mIsRunning, mIsInitialized,
                   mFileStream, mLogDirectory, mMaxLines, mCurrentLineCount,
                   localQueue, pc, call, sdPc, terminated, clock, disk,
                   console, hist>>

\* wait() may return without a notification
SpuriousWake ==
    /\ ~terminated
    /\ workerPc = "waiting"
    /\ workerPc' = "woken"
    /\ UNCHANGED <<mLogEntryQueue, mMutex, mWorkerThread, mIsRunning,
                   mIsInitialized, mFileStream, mLogDirectory, mMaxLines,
                   mCurrentLineCount, localQueue, pc, call, sdPc, terminated,
                   clock, disk, console, hist>>

\* a locked block that extends over the dispatch loop
LockKeptForDispatch == Worker

\* the closing brace of the block that declares the unique_lock: the owner
\* of the mutex once the worker is past the stop check and the swap
OwnerAfterLockedBlock == NoThread

\* the stop check, the swap, the end of the locked block, and
\* if (localQueue.empty()) continue;
WorkerDecide ==
    /\ ~terminated
    /\ workerPc = "decide"
    /\ mMutex' = OwnerAfterLockedBlock
    /\ IF shouldWorkerThreadWork(mLogEntryQueue, mIsRunning)
       THEN /\ workerPc' = "stopped"
            /\ UNCHANGED <<mLogEntryQueue, localQueue, hist>>
       ELSE /\ localQueue' = mLogEntryQueue
            /\ mLogEntryQueue' = localQueue
            /\ workerPc' = IF mLogEntryQueue = <<>> THEN "lock" ELSE "dispatch"
            /\ hist' = [hist EXCEPT !.swaps = @ + 1,
                                    !.emptyBatches = @ + (IF mLogEntryQueue = <<>>
                                                          THEN 1 ELSE 0)]
    /\ UNCHANGED <<mWorkerThread, mIsRunning, mIsInitialized, mFileStream,
                   mLogDirectory, mMaxLines, mCurrentLineCount, pc, call,
                   sdPc, terminated, clock, disk, console>>

\* a dispatch loop that goes back to the wait after one entry
LeaveAfterOneEntry(rest) == "lock"

\* while (!localQueue.empty()): where the worker goes after an entry, rest
\* being what is left of the batch
AfterEntry(rest) == IF rest = <<>> THEN "lock" ELSE "dispatch"

\* one iteration of while (!localQueue.empty()): pop the front entry, format
\* it (get_time_stamp_for_log throws std::runtime_error when localtime
\* fails; nothing in the thread catches it, so std::terminate is called),
\* write it to the file if writeToFile, write it to the terminal.
WorkerDispatch(fmtOk, stampOk, openOk, writeOk, now) ==
    /\ ~terminated
    /\ workerPc = "dispatch"
    /\ localQueue # <<>>
    /\ now >= clock
    /\ localQueue' = Tail(localQueue)
    /\ LET e == Head(localQueue)
           s == SinksFor(e)
           w == write_to_file(mFileStream, mCurrentLineCount, mMaxLines, now,
                              stampOk, openOk, writeOk)
           diagLine == [kind |-> "diag", id |-> 0, color |-> "", stream |-> "cerr"]
       IN IF ~fmtOk
          THEN /\ terminated' = TRUE
               /\ UNCHANGED <<mFileStream, mCurrentLineCount, disk, console,
                              hist, workerPc, clock>>
          ELSE /\ UNCHANGED terminated
               /\ workerPc' = AfterEntry(Tail(localQueue))
               /\ IF s.file
                  THEN /\ mFileStream' = w.fs
                       /\ mCurrentLineCount' = w.count
                       /\ disk' = IF w.line
                                  THEN [disk EXCEPT ![w.fs.path] = Append(@, e.id)]
                                  ELSE disk
                  ELSE UNCHANGED <<mFileStream, mCurrentLineCount, disk>>
               /\ clock' = IF s.file /\ w.created THEN now ELSE clock
               /\ console' = (IF s.file /\ w.diag THEN Append(console, diagLine)
                                                   ELSE console)
                              \o (IF s.terminal THEN <<write_to_terminal(e)>>
                                                ELSE <<>>)
               /\ hist' = [hist EXCEPT
                      !.dispatched = Append(@, e.id),
                      !.fileCalls = IF s.file THEN Append(@, e.id) ELSE @,
                      !.opened = IF s.file /\ w.opened
                                 THEN Append(@, w.fs.path) ELSE @,
                      !.last = IF s.file
                               THEN [id |-> e.id, persist |-> TRUE,
                                     wasOpen |-> mFileStream.is_open,
                                     created |-> w.created,
                                     opened |-> w.opened, wrote |-> w.wrote,
                                     line |-> w.line, diag |-> w.diag]
                               ELSE [NoDispatch EXCEPT !.id = e.id],
                      !.fault = @ \/ (s.file /\ (w.diag \/ (w.created /\ ~w.opened)
                                                  \/ (w.wrote /\ ~w.line)))]
    /\ UNCHANGED <<mLogEntryQueue, mMutex, mWorkerThread, mIsRunning,
                   mIsInitialized, mLogDirectory, mMaxLines, pc, call, sdPc>>

(* ------------------------ ~Logger / shut_down() ------------------------ *)
\* mIsRunning = false;
ShutdownBegin ==
    /\ ~terminated
    /\ sdPc = "idle"
    /\ mIsRunning' = FALSE
    /\ sdPc' = "notify"
    /\ hist' = [hist EXCEPT !.sdMark = Len(hist.pushOrder)]
    /\ UNCHANGED <<mLogEntryQueue, mMutex, mWorkerThread, mIsInitialized,
                   mFileStream, mLogDirectory, mMaxLines, mCurrentLineCount,
                   localQueue, workerPc, pc, call, terminated, clock, disk,
                   console>>

\* mCV.notify_all();
ShutdownNotify ==
    /\ ~terminated
    /\ sdPc = "notify"
    /\ workerPc' = Notified(workerPc)
    /\ sdPc' = "join"
    /\ UNCHANGED <<mLogEntryQueue, mMutex, mWorkerThread, mIsRunning,
                   mIsInitialized, mFileStream, mLogDirectory, mMaxLines,
                   mCurrentLineCount, localQueue, pc, call, terminated, clock,
                   disk, console, hist>>

\* if (mWorkerThread.joinable()) mWorkerThread.join();
ShutdownJoin ==
    /\ ~terminated
    /\ sdPc = "join"
    /\ mWorkerThread = "joinable" => workerPc = "stopped"
    /\ mWorkerThread' = IF mWorkerThread = "joinable" THEN "joined"
                        ELSE mWorkerThread
    /\ sdPc' = "close"
    /\ UNCHANGED <<mLogEntryQueue, mMutex, mIsRunning, mIsInitialized,
                   mFileStream, mLogDirectory, mMaxLines, mCurrentLineCount,
                   localQueue, workerPc, pc, call, terminated, clock, disk,
                   console, hist>>

\* if (mFileStream.is_open()) { flush(); close(); }
ShutdownClose ==
    /\ ~terminated
    /\ sdPc = "close"
    /\ mFileStream' = IF mFileStream.is_open
                      THEN [mFileStream EXCEPT !.is_open = FALSE, !.path = NoPath]
                      ELSE mFileStream
    /\ sdPc' = "returned"
    /\ UNCHANGED <<mLogEntryQueue, mMutex, mWorkerThread, mIsRunning,
                   mIsInitialized, mLogDirectory, mMaxLines, mCurrentLineCount,
                   localQueue, workerPc, pc, call, terminated, clock, disk,
                   console, hist>>

(* --------------------------- specification ----------------------------- *)
Next ==
    \/ \E t \in Threads, a \in InitInputs : InitCall(t, a[1], a[2])
    \/ \E t \in Threads : InitThrow(t)
    \/ \E t \in Threads : InitSpawn(t)
    \/ \E t \in Threads : \E a \in LogInputsOf(t) : LogCall(t, a[1], a[2], MaxEntries)
    \/ \E t \in Threads : LogInit(t)
    \/ \E t \in Threads : LogPush(t)
    \/ \E t \in Threads : LogNotify(t)
    \/ WorkerPred
    \/ WorkerWait
    \/ SpuriousWake
    \/ WorkerDecide
    \/ \E fmtOk \in BOOLEAN : WorkerDispatch(fmtOk, TRUE, TRUE, TRUE, clock)
    \/ ShutdownBegin
    \/ ShutdownNotify
    \/ ShutdownJoin
    \/ ShutdownClose

Spec == Init /\ [][Next]_vars

\* Two callers that log to the console without calling init(), the worker
\* and the teardown, under the scheduling the threads get from the operating system:
\* the worker thread keeps running process_queue() (its lock, the entry into
\* wait(), the stop check and swap, the dispatch loop), and a caller inside
\* log() runs the call to its end.  No caller has to start a call, wait()
\* owes nobody a spurious wake-up, and the teardown need not happen.
WakeNext ==
    \/ \E t \in Threads, a \in WakeLogInputs : LogCall(t, a[1], a[2], WakeEntries)
    \/ \E t \in Threads : LogInit(t)
    \/ \E t \in Threads : InitSpawn(t)
    \/ \E t \in Threads : LogPush(t)
    \/ \E t \in Threads : LogNotify(t)
    \/ WorkerPred
    \/ WorkerWait
    \/ SpuriousWake
    \/ WorkerDecide
    \/ \E fmtOk \in BOOLEAN : WorkerDispatch(fmtOk, TRUE, TRUE, TRUE, clock)
    \/ ShutdownBegin
    \/ ShutdownNotify
    \/ ShutdownJoin
    \/ ShutdownClose

Fairness ==
    /\ WF_vars(WorkerPred)
    /\ WF_vars(WorkerWait)
    /\ WF_vars(WorkerDecide)
    /\ WF_vars(\E fmtOk \in BOOLEAN : WorkerDispatch(fmtOk, TRUE, TRUE, TRUE, clock))
    /\ \A t \in Threads :
          /\ WF_vars(InitSpawn(t))
          /\ WF_vars(LogInit(t))
          /\ WF_vars(LogPush(t))
          /\ WF_vars(LogNotify(t))

FairSpec == Init /\ [][WakeNext]_vars /\ Fairness

\* One caller thread and the worker, before teardown, with every outcome of
\* the file operations and of the clock: the runs in which the behaviour of
\* the sinks is decided.
SinkNext ==
    \/ \E a \in SinkInitInputs : InitCall("p1", a[1], a[2])
    \/ InitThrow("p1")
    \/ InitSpawn("p1")
    \/ \E a \in SinkLogInputs : LogCall("p1", a[1], a[2], SinkEntries)
    \/ LogInit("p1")
    \/ LogPush("p1")
    \/ LogNotify("p1")
    \/ WorkerPred
    \/ WorkerWait
    \/ WorkerDecide
    \/ \E fmtOk, stampOk, openOk, writeOk \in BOOLEAN, now \in 0..MaxClock :
          WorkerDispatch(fmtOk, stampOk, openOk, writeOk, now)

SinkSpec == Init /\ [][SinkNext]_vars

\* One caller that never calls init() itself and logs at each of the three
\* levels, and the worker, before teardown, with every outcome of the file
\* operations: the runs in which the console lines are written.
ConsoleNext ==
    \/ \E a \in ConsoleLogInputs : LogCall("p1", a[1], a[2], ConsoleEntries)
    \/ LogInit("p1")
    \/ InitSpawn("p1")
    \/ LogPush("p1")
    \/ LogNotify("p1")
    \/ WorkerPred
    \/ WorkerWait
    \/ WorkerDecide
    \/ \E fmtOk, stampOk, openOk, writeOk \in BOOLEAN :
          WorkerDispatch(fmtOk, stampOk, openOk, writeOk, clock)

ConsoleSpec == Init /\ [][ConsoleNext]_vars

(* ------------------------------ observers ------------------------------ *)
\* the ids of the entry lines on the console, in the order written
ConsoleEntryIds == IdSeq(SelectSeq(console, LAMBDA c : c.kind = "entry"))

\* how many console lines entry id has
ConsoleLinesOf(id) ==
    Cardinality({k \in 1..Len(console) :
                    console[k].kind = "entry" /\ console[k].id = id})

RECURSIVE SumLines(_)
SumLines(names) ==
    IF names = {} THEN 0
    ELSE LET n == CHOOSE x \in names : TRUE
         IN Len(disk[n]) + SumLines(names \ {n})

\* lines that landed in files, over all files
TotalFileLines == SumLines(FileNames)

IsPrefix(s, t) == Len(s) <= Len(t) /\ \A i \in 1..Len(s) : s[i] = t[i]

(* ------------------------------- claims -------------------------------- *)

\* C1: drain guarantee.  When shut_down has returned, every entry whose push
\* had completed before shut_down set the stop flag has been dispatched: it
\* has its console line, and write_to_file was called for it iff it is a
\* writeToFile entry; and if nothing was pushed after that moment, the shared
\* queue and the worker's local batch are empty.
C1_DrainGuarantee ==
    sdPc = "returned" =>
        /\ \A i \in 1..hist.sdMark :
              /\ i \in Range(hist.dispatched)
              /\ ConsoleLinesOf(i) = 1
              /\ hist.pushOrder[i].writeToFile => i \in Range(hist.fileCalls)
        /\ Len(hist.pushOrder) = hist.sdMark =>
              mLogEntryQueue = <<>> /\ localQueue = <<>>

\* shut_down has returned after two entries with different writeToFile flags
\* had been pushed before it started
C1_Witness ==
    /\ sdPc = "returned"
    /\ hist.sdMark = 2
    /\ hist.pushOrder[1].writeToFile # hist.pushOrder[2].writeToFile

\* C2: shutdown always completes.  Stated as the state the claim excludes:
\* shut_down has set the stop flag and called notify_all and is at the join,
\* the worker is blocked in wait(), the queue is empty and no caller is
\* inside log(), so that nobody is left to notify the worker.
C2_NoSleepAfterStop ==
    ~ ( /\ sdPc = "join"
        /\ ~mIsRunning
        /\ mWorkerThread = "joinable"
        /\ workerPc = "waiting"
        /\ mLogEntryQueue = <<>>
        /\ \A t \in Threads : pc[t] = "idle" )

\* C3: FIFO dispatch.  The entries dispatched so far are, in order, the first
\* entries pushed; the console shows them in that order; and what has been
\* pushed is what was dispatched, then the local batch, then the shared
\* queue (unless the process was terminated in the middle of an entry).
C3_FifoDispatch ==
    /\ IsPrefix(hist.dispatched, IdSeq(hist.pushOrder))
    /\ ConsoleEntryIds = hist.dispatched
    /\ ~terminated =>
          IdSeq(hist.pushOrder)
             = hist.dispatched \o IdSeq(localQueue) \o IdSeq(mLogEntryQueue)

\* two entries of different producers dispatched in two different batches
C3_Witness ==
    /\ Len(hist.dispatched) = 2
    /\ hist.swaps >= 2
    /\ hist.pushOrder[1].producer # hist.pushOrder[2].producer

\* C4 as stated: a thread inside log() has done no file-system or console
\* I/O, on any path.
C4_LogNeverDoesIO ==
    \A t \in Threads : call[t].op = "log" => call[t].io = {}

\* C4 amended: a thread inside log() that read mIsInitialized as true has
\* done no I/O; one that read it as false has done nothing but the diagnostic
\* line on std::cout and, in init(), the resolution of the current directory.
C4_LogIOOnlyWhenUninitialized ==
    \A t \in Threads :
        call[t].op = "log" =>
            /\ call[t].sawInit => call[t].io = {}
            /\ call[t].io \subseteq {"cout", "current_path"}

\* a log() call that found the logger initialized has pushed its entry
C4_Witness ==
    \E t \in Threads :
        call[t].op = "log" /\ call[t].sawInit /\ pc[t] = "log_notify"

\* C5: sink routing.  Every dispatched entry has exactly one console line,
\* whatever its writeToFile flag, and write_to_file was called for it iff the
\* flag is true; no line of any file comes from an entry whose flag is false.
C5_SinkRouting ==
    /\ \A i \in 1..Len(hist.dispatched) :
          LET id == hist.dispatched[i]
          IN /\ ConsoleLinesOf(id) = 1
             /\ id \in Range(hist.fileCalls) <=> hist.pushOrder[id].writeToFile
    /\ \A n \in FileNames : \A k \in 1..Len(disk[n]) :
          hist.pushOrder[disk[n][k]].writeToFile

\* an entry with the flag and an entry without it have both been dispatched
C5_Witness ==
    \E i, j \in 1..Len(hist.dispatched) :
        /\ hist.pushOrder[hist.dispatched[i]].writeToFile
        /\ ~hist.pushOrder[hist.dispatched[j]].writeToFile

\* every file operation so far succeeded: each call of write_to_file put a
\* line into a file
NoSinkFailure == TotalFileLines = Len(hist.fileCalls)

\* C6: rotation arithmetic.  With mMaxLines >= 1 and no failed file
\* operation, after k * max + r lines (0 < r < max) exactly k + 1 files have
\* been opened, under k + 1 different names, and the file being written
\* contains r lines.
C6_RotationArithmetic ==
    (NoSinkFailure /\ mMaxLines >= 1 /\ mFileStream.is_open) =>
        LET k == TotalFileLines \div mMaxLines
            r == TotalFileLines % mMaxLines
        IN r > 0 =>
            /\ Len(hist.opened) = k + 1
            /\ Cardinality(Range(hist.opened)) = k + 1
            /\ Len(disk[mFileStream.path]) = r

\* the file names used so far are pairwise different
NoNameCollision == Cardinality(Range(hist.opened)) = Len(hist.opened)

\* C6 holds in the runs without a name collision
RotationArithmeticWithoutCollision == NoNameCollision => C6_RotationArithmetic

\* the part of C6 that is about the sink's own state: the number of open()
\* calls and the line counter
RotationCounters ==
    (NoSinkFailure /\ mMaxLines >= 1 /\ mFileStream.is_open) =>
        LET k == TotalFileLines \div mMaxLines
            r == TotalFileLines % mMaxLines
        IN /\ r > 0 => Len(hist.opened) = k + 1 /\ mCurrentLineCount = r
           /\ r = 0 => Len(hist.opened) = k /\ mCurrentLineCount = mMaxLines

\* a step in which an init() call begins, or goes on under the mutex
InitStep ==
    \/ hist'.inits # hist.inits
    \/ \E t \in Threads : pc[t] = "init_lock" /\ pc'[t] # "init_lock"

\* C7: init is idempotent.  Once init has taken effect (mIsInitialized set
\* and the worker created), no step changes the directory, the line limit or
\* the initialized flag or creates a thread, and a step of an init() call
\* changes neither the running flag nor the worker handle.
C7_InitIdempotent ==
    [][ (mIsInitialized /\ mWorkerThread # "none") =>
            /\ mLogDirectory' = mLogDirectory
            /\ mMaxLines' = mMaxLines
            /\ mIsInitialized'
            /\ hist'.threadsCreated = hist.threadsCreated
            /\ InitStep => (mIsRunning' = mIsRunning
                            /\ mWorkerThread' = mWorkerThread) ]_vars

\* an init() call made after init had taken effect has returned
C7_Witness ==
    /\ hist.noopInits >= 1
    /\ hist.threadsCreated = 1
    /\ \A t \in Threads : pc[t] = "idle"

\* C8: no init() call leaves by an exception when the directory cannot be
\* created.
C8_InitToleratesBadDirectory ==
    \A t \in Threads : pc[t] # "init_throw"

\* C9: no failure while dispatching an entry terminates the process.
C9_DispatchNeverTerminates ==
    ~terminated

\* C10: a failed open is dropped and retried.  When the last dispatch had to
\* create a file and none was opened, no line was written for that entry and
\* the stream is left closed; a writeToFile entry dispatched while the stream
\* is closed calls create_new_file; every dispatched entry has its console
\* line; and as long as no open has succeeded no file has any line.
C10_OpenFailureDroppedAndRetried ==
    /\ (hist.last.created /\ ~hist.last.opened) =>
          /\ ~hist.last.line
          /\ ~mFileStream.is_open
          /\ ConsoleLinesOf(hist.last.id) = 1
    /\ (hist.last.persist /\ ~hist.last.wasOpen) => hist.last.created
    /\ hist.opened = <<>> =>
          /\ TotalFileLines = 0
          /\ \A i \in 1..Len(hist.dispatched) :
                ConsoleLinesOf(hist.dispatched[i]) = 1

\* three writeToFile entries dispatched, the stream closed each time and no
\* open ever succeeding
C10_Witness ==
    /\ Len(hist.fileCalls) = 3
    /\ hist.opened = <<>>
    /\ hist.last.persist /\ ~hist.last.wasOpen /\ hist.last.created
    /\ ~hist.last.diag

\* the ids of the entries thread t has pushed
PushedBy(t) ==
    {i \in 1..Len(hist.pushOrder) : hist.pushOrder[i].producer = t}

\* the ids of the entries in the shared queue, in the worker's batch or
\* already dispatched
QueuedOrTaken ==
    Range(IdSeq(mLogEntryQueue)) \cup Range(IdSeq(localQueue))
        \cup Range(hist.dispatched)

\* C11: implicit initialization.  A log() call that read mIsInitialized as
\* false has, once past its init() (about to push, or pushed and about to
\* notify and return), left the logger initialized with the worker thread
\* created; if its own init() call was the one that configured the logger,
\* the configuration is the default one (current directory, 100000 lines);
\* as long as the teardown has not begun the running flag is set and the
\* worker has not stopped; and once it has pushed, its entry is in the shared
\* queue, in the worker's batch or dispatched (the process not having been
\* terminated).
C11_ImplicitInit ==
    \A t \in Threads :
        (call[t].op = "log" /\ ~call[t].sawInit
            /\ pc[t] \in {"log_push", "log_notify"}) =>
            /\ mIsInitialized
            /\ mWorkerThread # "none"
            /\ hist.threadsCreated = 1
            /\ "current_path" \in call[t].io =>
                  mLogDirectory = Cwd /\ mMaxLines = DefaultMaxLines
            /\ sdPc = "idle" => mIsRunning /\ workerPc \notin {"none", "stopped"}
            /\ (pc[t] = "log_notify" /\ ~terminated) =>
                  /\ PushedBy(t) # {}
                  /\ PushedBy(t) \subseteq QueuedOrTaken

\* a log() call whose own implicit init() configured the logger, after an
\* init() call with an uncreatable directory had failed, has pushed its entry
\* and is about to return
C11_Witness ==
    \E t \in Threads :
        /\ call[t].op = "log" /\ ~call[t].sawInit /\ pc[t] = "log_notify"
        /\ "current_path" \in call[t].io
        /\ hist.inits = 1 /\ hist.noopInits = 0
        /\ sdPc = "idle"

\* C12: shutdown leaves the logger stopped.  Stated for the first shut_down,
\* at the point where it is past the join and has only the stream left to
\* close before it returns: the worker thread is not joinable and the running
\* flag is false.
C12_ShutdownLeavesStopped ==
    sdPc = "close" => (mWorkerThread # "joinable" /\ ~mIsRunning)

\* the configuration an init(dir, max) call leaves when it is the one that
\* configures the logger
ConfigOf(dir, max) == <<IF dir = DefaultDir THEN Cwd ELSE dir, max>>

\* the configurations of the init() calls that can succeed
WinningConfigs ==
    {ConfigOf(a[1], a[2]) :
        a \in {b \in InitInputs \cup SinkInitInputs
                       \cup {<<DefaultDir, DefaultMaxLines>>} :
                  b[1] = DefaultDir \/ Creatable(b[1])}}

\* the callers that are inside init() with the flags set, about to create
\* the worker thread
Spawning == {t \in Threads : pc[t] = "init_spawn"}

\* C13: at most one consumer.  Over all interleavings of init() calls and of
\* log() calls that run the implicit init(), the worker threads created plus
\* the init() calls about to create one are at most one; the call about to
\* create the thread holds the mutex and the directory and the line limit
\* are the ones of that call; and once the logger is initialized the
\* directory and the line limit are those of one and the same successful
\* call, never a mixture left by a call that lost or failed.
C13_SingleConsumer ==
    /\ hist.threadsCreated + Cardinality(Spawning) <= 1
    /\ \A t \in Spawning :
          /\ mMutex = t
          /\ <<mLogDirectory, mMaxLines>> = ConfigOf(call[t].dir, call[t].max)
    /\ mIsInitialized => <<mLogDirectory, mMaxLines>> \in WinningConfigs

\* both callers are inside log() calls that read mIsInitialized as false,
\* both are past the implicit init(), and one thread has been created
C13_Witness ==
    /\ \A t \in Threads :
          /\ call[t].op = "log" /\ ~call[t].sawInit
          /\ pc[t] \in {"log_push", "log_notify"}
    /\ hist.threadsCreated = 1

\* C14: console stream routing.  Every dispatched entry has exactly one
\* console line; every console line of an entry belongs to a dispatched
\* entry, is on std::cerr if and only if the level of the entry is ERROR, and
\* is on std::cout when the level is INFO or WARNING.
C14_ConsoleRouting ==
    /\ \A i \in 1..Len(hist.dispatched) : ConsoleLinesOf(hist.dispatched[i]) = 1
    /\ \A k \in 1..Len(console) :
          console[k].kind = "entry" =>
              LET e == hist.pushOrder[console[k].id]
              IN /\ e.id \in Range(hist.dispatched)
                 /\ console[k].stream = "cerr" <=> e.level = "ERROR"
                 /\ e.level \in {"INFO", "WARNING"} => console[k].stream = "cout"

\* an INFO, a WARNING and an ERROR entry have been dispatched, and the
\* console also carries a diagnostic line of the file sink on std::cerr
C14_Witness ==
    /\ {hist.pushOrder[i].level : i \in Range(hist.dispatched)} = Levels
    /\ \E k \in 1..Len(console) :
          console[k].kind = "diag" /\ console[k].stream = "cerr"

\* entry id has been pushed: the locked block of its log() call is over
Enqueued(id) == Len(hist.pushOrder) >= id

\* entry id has gone through the dispatch loop
Dispatched(id) == id \in Range(hist.dispatched)

\* the worker is blocked in wait() with entries in the shared queue and no
\* caller between its push and its notify_one()
AsleepOnWork ==
    /\ workerPc = "waiting"
    /\ mLogEntryQueue # <<>>
    /\ \A t \in Threads : pc[t] # "log_notify"

\* C15: no lost wake-up on enqueue.  The worker is never blocked in wait()
\* with a non-empty shared queue unless the caller that pushed is still to
\* call notify_one(); and under fair scheduling every entry whose push has
\* completed is eventually dispatched, unless the logger stops running first
\* (the worker has left process_queue() after a teardown, or the process was
\* terminated).
C15_NoLostWakeup ==
    /\ [](~AsleepOnWork)
    /\ \A id \in 1..WakeEntries :
          Enqueued(id) ~> (Dispatched(id) \/ workerPc = "stopped" \/ terminated)

\* the window of the race: an entry has been pushed while the worker was
\* blocked in wait(), and the notify_one() of its log() call is still to come
C15_Witness ==
    /\ workerPc = "waiting"
    /\ mLogEntryQueue # <<>>
    /\ \E t \in Threads : pc[t] = "log_notify"
    /\ mIsRunning

\* C16: the worker stops only when drained.  A step that takes the worker
\* out of process_queue() is taken from the stop check, with the mutex held,
\* the running flag false, the shared queue and the local buffer empty and
\* every entry pushed so far dispatched; a worker at the stop check that
\* finds the flag false and the shared queue non-empty takes the queue as
\* its batch and goes on to dispatch it; and a worker that has left
\* process_queue() never runs again.
C16_StopOnlyWhenDrained ==
    [][ /\ (workerPc' = "stopped" /\ workerPc # "stopped") =>
              /\ workerPc = "decide"
              /\ mMutex = Worker
              /\ ~mIsRunning
              /\ mLogEntryQueue = <<>>
              /\ localQueue = <<>>
              /\ hist.dispatched = IdSeq(hist.pushOrder)
        /\ (workerPc = "decide" /\ workerPc' # "decide"
                /\ ~mIsRunning /\ mLogEntryQueue # <<>>) =>
              /\ workerPc' = "dispatch"
              /\ localQueue' = mLogEntryQueue
        /\ workerPc = "stopped" => workerPc' = "stopped" ]_vars

\* shut_down has cleared the flag and waits at the join while the worker, at
\* the stop check, finds entries in the shared queue
C16_Witness ==
    /\ sdPc = "join"
    /\ workerPc = "decide"
    /\ ~mIsRunning
    /\ mLogEntryQueue # <<>>

\* C17: atomic whole-queue drain.  Every step in which the worker swaps the
\* shared queue with its local buffer is taken with the mutex held and the
\* local buffer empty, leaves the shared queue empty and makes the batch the
\* previous content of the shared queue, in the same order; and after every
\* step the shared queue holds no entry that is in the batch or has been
\* dispatched.
C17_WholeQueueDrain ==
    [][ /\ hist'.swaps # hist.swaps =>
              /\ mMutex = Worker
              /\ localQueue = <<>>
              /\ mLogEntryQueue' = <<>>
              /\ localQueue' = mLogEntryQueue
        /\ Range(IdSeq(mLogEntryQueue'))
              \cap (Range(IdSeq(localQueue')) \cup Range(hist'.dispatched)) = {}
      ]_vars

\* the worker has swapped a second time, after having dispatched its first
\* batch, and holds a new batch while another entry is already in the
\* shared queue
C17_Witness ==
    /\ hist.swaps = 2
    /\ workerPc = "dispatch"
    /\ hist.dispatched # <<>>
    /\ localQueue # <<>>
    /\ mLogEntryQueue # <<>>

\* C18: no empty batch.  No swap has ever taken an empty shared queue; a
\* worker in the dispatch loop has a non-empty batch (as long as the process
\* has not been terminated in the middle of an entry); and a worker that has
\* passed the wait and is at the stop check with the shared queue empty finds
\* the running flag false, so that it stops instead of swapping.
C18_NoEmptyBatch ==
    /\ hist.emptyBatches = 0
    /\ (workerPc = "dispatch" /\ ~terminated) => localQueue # <<>>
    /\ (workerPc = "decide" /\ mLogEntryQueue = <<>>) => ~mIsRunning

\* the worker, having taken a batch before, has passed the wait with the
\* shared queue empty and is at the stop check
C18_Witness ==
    /\ workerPc = "decide"
    /\ mLogEntryQueue = <<>>
    /\ hist.swaps >= 1

\* C19: the line counter tracks successful writes.  While a file is open
\* (and its name was not used by an earlier file, so that it holds only the
\* lines written since it was opened), mCurrentLineCount is the number of
\* lines the file holds.
C19_CounterCountsLandedLines ==
    (mFileStream.is_open /\ NoNameCollision) =>
        mCurrentLineCount = Len(disk[mFileStream.path])

\* the same, in the runs in which no file operation has failed
CounterCountsLinesWithoutFault == ~hist.fault => C19_CounterCountsLandedLines

\* the last dispatch was a rotation attempt at the line limit (the stream was
\* open, so create_new_file was called because the counter had reached
\* mMaxLines, which is at least 1) and it opened no file
FailedRotationAtLimit ==
    /\ hist.last.persist
    /\ hist.last.wasOpen
    /\ hist.last.created
    /\ ~hist.last.opened

\* C20: the counter is reset to 0 only when a new file is opened.  Stated
\* for the rotation attempt that opens no file: after it the counter has not
\* been reset to 0.
C20_NoResetWithoutOpen ==
    FailedRotationAtLimit => mCurrentLineCount # 0

\* the other half of the claim: a dispatch that opened a new file leaves the
\* counter at 1, the reset to 0 followed by the count of its own line
OpenResetsCounter ==
    (hist.last.persist /\ hist.last.opened) => mCurrentLineCount = 1

\* a rotation attempt whose time stamp failed (no open attempted) leaves the
\* counter as it was
NoResetWhenStampFails ==
    (FailedRotationAtLimit /\ hist.last.diag) => mCurrentLineCount >= mMaxLines

\* C21: lazy file opening.  A step that opens a file, changes the stream or
\* adds a line to a file is a step of the dispatch loop whose entry has the
\* writeToFile flag: no step of init(), of log(), of the start of the worker
\* or of shut_down opens a file (shut_down only closes the stream).  And as
\* long as no entry with the flag has been pushed, no file has been opened
\* and the stream is closed.
C21_LazyFileOpening ==
    [][ /\ (hist'.opened # hist.opened \/ disk' # disk
                \/ (mFileStream'.is_open /\ mFileStream' # mFileStream)) =>
              /\ workerPc = "dispatch"
              /\ localQueue # <<>>
              /\ Head(localQueue).writeToFile
        /\ (\A i \in 1..Len(hist'.pushOrder) : ~hist'.pushOrder[i].writeToFile) =>
              /\ hist'.opened = <<>>
              /\ ~mFileStream'.is_open
              /\ \A n \in FileNames : disk'[n] = <<>>
      ]_vars

\* shut_down has returned after a run of two entries, none with the
\* writeToFile flag, both dispatched, and no file was opened
C21_Witness ==
    /\ sdPc = "returned"
    /\ mWorkerThread = "joined"
    /\ Len(hist.dispatched) = 2
    /\ \A i \in 1..Len(hist.pushOrder) : ~hist.pushOrder[i].writeToFile
    /\ hist.opened = <<>>

\* C22: line cap.  With a line limit of at least 1, the line counter is
\* between 0 and the limit in every state, whatever writes, failed opens,
\* failed time stamps and rotations have occurred.
C22_LineCap ==
    mMaxLines >= 1 =>
        /\ 0 <= mCurrentLineCount
        /\ mCurrentLineCount <= mMaxLines

\* the counter is at the limit in a second file, after a rotation and a
\* failed file operation
C22_Witness ==
    /\ Len(hist.opened) >= 2
    /\ hist.fault
    /\ mFileStream.is_open
    /\ mCurrentLineCount = mMaxLines

\* the worker thread exists and has not left process_queue()
WorkerAlive == workerPc \notin {"none", "stopped"}

\* the worker is about to call write_to_file, which reads mMaxLines and
\* mLogDirectory and reads and writes mFileStream and mCurrentLineCount,
\* without any lock
WorkerInSink ==
    /\ ~terminated
    /\ workerPc = "dispatch"
    /\ localQueue # <<>>
    /\ Head(localQueue).writeToFile

\* C23: the state of the file sink is never accessed by two threads at once.
\* While the worker is alive the logger is initialized, so that no init()
\* call writes the directory or the line limit; and shut_down is never at
\* the point of testing and closing the stream while the worker is about to
\* write to it.
C23_NoConcurrentSinkAccess ==
    /\ WorkerAlive => mIsInitialized
    /\ ~(sdPc = "close" /\ WorkerInSink)

\* C24: the worker dispatches without the mutex.  The worker owns the mutex
\* exactly from the evaluation of the wait predicate to the entry into
\* wait() or to the end of the stop check and swap, never in the dispatch
\* loop; and while the worker is in the dispatch loop every caller that is
\* at the push of its log() call can take the mutex and push.
C24_DispatchWithoutMutex ==
    /\ mMutex = Worker <=> workerPc \in {"decide", "enter_wait"}
    /\ \A t \in Threads :
          (workerPc = "dispatch" /\ pc[t] = "log_push" /\ ~terminated) =>
              ENABLED LogPush(t)

\* the worker is in the dispatch loop, in front of an entry for the file,
\* while a caller is at the push of its log() call
C24_Witness ==
    /\ workerPc = "dispatch"
    /\ localQueue # <<>>
    /\ Head(localQueue).writeToFile
    /\ \E t \in Threads : pc[t] = "log_push"
    /\ ~terminated

\* C25: logging after the stop is silently lost.  Once the worker has left
\* process_queue(), no step dispatches an entry, writes a console line or a
\* file line, creates a thread, clears the initialized flag or takes the
\* worker out of the stopped state; a log() call made then finds the flag
\* set, so it runs no init(); no init() call gets past its early return;
\* and the push and the notify_one() of a log() call can always be taken,
\* so that the call returns with its entry in the shared queue, which only
\* grows.
C25_LostAfterStop ==
    [][ workerPc = "stopped" =>
          /\ workerPc' = "stopped"
          /\ mIsInitialized /\ mIsInitialized'
          /\ hist'.threadsCreated = hist.threadsCreated
          /\ hist'.dispatched = hist.dispatched
          /\ hist'.fileCalls = hist.fileCalls
          /\ console' = console
          /\ disk' = disk
          /\ localQueue' = <<>>
          /\ IsPrefix(mLogEntryQueue, mLogEntryQueue')
          /\ \A t \in Threads :
                /\ (pc[t] = "idle" /\ call'[t].op = "log") =>
                      (call'[t].sawInit /\ pc'[t] = "log_push")
                /\ pc'[t] # "init_spawn"
                /\ pc'[t] = "init_throw" => pc[t] = "init_throw"
                /\ (pc[t] = "log_push" /\ ~terminated) => ENABLED LogPush(t)
                /\ (pc[t] = "log_notify" /\ ~terminated) => ENABLED LogNotify(t)
      ]_vars

\* shut_down has returned, the worker has stopped, and a log() call made
\* afterwards has returned, leaving its entry in the shared queue
C25_Witness ==
    /\ sdPc = "returned"
    /\ workerPc = "stopped"
    /\ mLogEntryQueue # <<>>
    /\ \A t \in Threads : pc[t] = "idle"
    /\ Len(hist.pushOrder) > hist.sdMark

\* a sequence without repetition
NoDuplicates(s) == Cardinality(Range(s)) = Len(s)

\* how many lines of all the files come from entry id
FileLinesOf(id) ==
    Cardinality(UNION {{<<n, k>> : k \in {j \in DOMAIN disk[n] : disk[n][j] = id}} :
                          n \in FileNames})

\* C26: exactly-once dispatch.  The shared queue, the worker's batch and the
\* dispatched entries hold no entry twice, hold only entries that were
\* pushed and are pairwise disjoint; unless the process was terminated in
\* the middle of an entry, every pushed entry is in one of the three; an
\* entry has one console line if it has been dispatched and none otherwise;
\* write_to_file was called at most once per entry, only for dispatched
\* ones, and no entry has more than one line in the files.
C26_ExactlyOnce ==
    LET Q == IdSeq(mLogEntryQueue)
        L == IdSeq(localQueue)
        D == hist.dispatched
        Pushed == 1..Len(hist.pushOrder)
    IN /\ NoDuplicates(Q \o L \o D)
       /\ Range(Q \o L \o D) \subseteq Pushed
       /\ ~terminated => Range(Q \o L \o D) = Pushed
       /\ \A i \in 1..Len(mLogEntryQueue) :
             mLogEntryQueue[i] = hist.pushOrder[mLogEntryQueue[i].id]
       /\ \A i \in 1..Len(localQueue) :
             localQueue[i] = hist.pushOrder[localQueue[i].id]
       /\ \A id \in Pushed :
             ConsoleLinesOf(id) = IF id \in Range(D) THEN 1 ELSE 0
       /\ NoDuplicates(hist.fileCalls)
       /\ Range(hist.fileCalls) \subseteq Range(D)
       /\ \A id \in Pushed : FileLinesOf(id) <= 1

\* one entry of each caller: one dispatched, to the file and the console,
\* the other still in the shared queue
C26_Witness ==
    /\ Len(hist.dispatched) = 1
    /\ hist.fileCalls = hist.dispatched
    /\ Len(mLogEntryQueue) = 1
    /\ localQueue = <<>>
    /\ hist.pushOrder[1].producer # hist.pushOrder[2].producer

\* C27: each rotation starts a distinct file.  The names of the files opened
\* so far are pairwise different, and with a line limit of at least 1 no
\* file holds more lines than the limit.
C27_DistinctFilePerRotation ==
    /\ Cardinality(Range(hist.opened)) = Len(hist.opened)
    /\ mMaxLines >= 1 => \A n \in FileNames : Len(disk[n]) <= mMaxLines

\* the line limit of the files, in the runs in which the clock has advanced
\* between any two rotations
LineLimitWhenClockAdvances ==
    NoNameCollision =>
        (mMaxLines >= 1 => \A n \in FileNames : Len(disk[n]) <= mMaxLines)

====
